---------------------------- MODULE Spec2Model ----------------------------
(***************************************************************************)
(* Model of the rotation recorder/player of audible-garden-TH              *)
(* (src/revised/fixed_turntable.py, class TurntableScoreRecorder) and of   *)
(* the GUI pipeline that drives it (src/revised/turntable_gui_.py).        *)
(*                                                                         *)
(* RPM values are kept in tenths of a revolution per minute (the GUI       *)
(* slider unit, value / 10.0), so that int(60.0 / rpm * fps) is the        *)
(* integer quotient (600 * fps) \div rpm.                                  *)
(***************************************************************************)
EXTENDS Integers, Sequences, FiniteSets, TLC

(* ----------------------------- bounds ---------------------------------- *)
MaxFrame == 3          \* largest frame index the caller reaches (Spec)
MaxEntries == 2        \* cap on the note entries the recorder holds
MaxRotations == 2      \* cap on len(score_data['rotations'])
MaxTicks == 7          \* cap on the GUI frame counter (SpecGui)
MaxIndex == 720        \* largest frame index a position is computed for

(* ----------------------------- inputs ---------------------------------- *)
RpmValues == {300, 600}          \* constructor / detected RPM, in tenths
FpsValues == {1}                 \* camera frame rate
SliderValues == {100}            \* rpm_slider positions used (range 10..100)
LoadRpm == 25                    \* TurntableScoreRecorder(2.5, 30) of the loader
LoadFps == 30
DetectedValues == {0, 120}       \* RotationDetector estimates, in tenths
RpmFloor == 5                    \* the 0.5 rpm acceptance floor, in tenths
Scales == {"C_PENTATONIC"}
RoiModes == {"circular"}
GuiRoiModes == {"Circular"}      \* roi_mode_combo entries used

(* A chord is the triple of parallel lists (notes, velocities, durations); *)
(* it is kept as one sequence of <<note, velocity, duration>> triples.     *)
EmptyChord == << >>
ChordA == << <<60, 100, 1>> >>
ChordB == << <<64, 90, 2>>, <<67, 80, 1>> >>
ChordC == << <<60, 100, 1>>, <<64, 90, 2>>, <<67, 80, 3>> >>
Chords == {EmptyChord, ChordA}

(* Raw ROI profiles (scanlines), named by the grey level they hold.        *)
Profiles == {<<255>>}

(* ------------------------------ state ---------------------------------- *)
VARIABLES
    rpm,                 \* self.rpm (tenths)
    fps,                 \* self.fps
    frames_per_rotation, \* self.frames_per_rotation
    score_data,          \* self.score_data: [metadata, rotations]
    current_rotation,    \* self.current_rotation: [frame_start, notes, raw_rois]
    is_recording,        \* self.is_recording
    recorded_rotations,  \* self.recorded_rotations
    is_loaded,           \* self.is_loaded
    session_path,        \* self.session_path is set (TRUE) or None (FALSE)
    session_files,       \* score.json / score.npy of the folder session_path names
    frame_count,         \* the caller's frame counter
    last,                \* the last call made and what it returned
    hist,                \* history of the recording in progress (not program state)
    gui,                 \* TurntableGUI fields
    timing,              \* the timing model of the call last made (SpecTiming)
    detector,            \* RotationDetector fields (SpecDetector)
    mapper,              \* the generate_midi_from_roi call last made (SpecMapper)
    scan,                \* the scanline extraction last made (SpecScan)
    osc,                 \* the OSC client's messages of the last send_midi (SpecOsc)
    controller           \* TurntableController fields (SpecController)

vars == <<rpm, fps, frames_per_rotation, score_data, current_rotation,
          is_recording, recorded_rotations, is_loaded, session_path,
          session_files, frame_count, last, hist, gui, timing, detector,
          mapper, scan, osc, controller>>

\* the mapper, the scanline extractors, the OSC transport and the controller
stages == <<mapper, scan, osc, controller>>

\* the state outside the recorder and the GUI
aux == <<timing, detector, stages>>

recorder == <<rpm, fps, frames_per_rotation, score_data, current_rotation,
              is_recording, recorded_rotations, is_loaded, session_path,
              session_files>>

(* --------------------------- pure helpers ------------------------------ *)
Abs(x) == IF x < 0 THEN -x ELSE x

\* int(a / b): the quotient truncated towards zero
TruncDiv(a, b) ==
    LET q == Abs(a) \div Abs(b)
    IN  IF (a < 0) # (b < 0) THEN -q ELSE q

\* int(60.0 / rpm * fps), rpm in tenths
FramesPerRotation(r, f) == TruncDiv(600 * f, r)

NewRotation(f) == [frame_start |-> f, notes |-> << >>, raw_rois |-> << >>]

\* a rotation as stored in score_data['rotations'] (its 'frame_start' and
\* 'zodiac_sections' are never read back and are left out); has_notes is
\* FALSE for the {'raw_rois': [...]} dictionary that loading score.npy builds
StoredRotation(cur) ==
    [has_notes |-> TRUE, notes |-> cur.notes, raw_rois |-> cur.raw_rois]

Metadata(r, f) ==
    [rpm |-> r, fps |-> f, frames_per_rotation |-> FramesPerRotation(r, f),
     scale |-> "None", roi_mode |-> "None"]

Call(op, ok, chord, err, frame) ==
    [op |-> op, ok |-> ok, chord |-> chord, err |-> err, frame |-> frame]

\* history of the recording begun by the latest start_recording: whether it
\* is still the caller's (active), whether a check_rotation_complete call has
\* seen frame_count - start >= frames_per_rotation (reached), how many calls
\* returned True (trues); first_len is frames_per_rotation at the moment
\* score_data['rotations'][0] was finalized (0: none, or loaded from disk).
\* For the GUI: checks counts the check_rotation_complete calls process_logic
\* made for the recording, and finalized is the recording the user last
\* loaded or completed (its note entries and its frames_per_rotation), until
\* a new recording is begun;
\* new_frame tells whether the camera thread has delivered a frame since
\* the last process_logic tick.
NoFinalized == [exists |-> FALSE, has_notes |-> FALSE, notes |-> << >>, fpr |-> 0]

NoHist == [active |-> FALSE, reached |-> FALSE, trues |-> 0, start |-> 0,
           first_len |-> 0, checks |-> 0, finalized |-> NoFinalized,
           new_frame |-> FALSE]

\* TurntableGUI.__init__: no recorder, no detector, no frame, live mode,
\* playback button disabled
NoGui == [is_running |-> FALSE, is_playback_mode |-> FALSE,
          playback_enabled |-> FALSE,
          has_recorder |-> FALSE, has_detector |-> FALSE,
          has_frame |-> FALSE, has_roi |-> FALSE,
          timing_fpr |-> 0, camera_fps |-> 0, detected_rpm_value |-> 0,
          nominal_rpm |-> 0, current_angle |-> 0]

\* the for-loop of get_playback_notes: the first note_data whose 'frame'
\* equals relative_frame, else the empty chord
RECURSIVE FindNotes(_, _)
FindNotes(notes, relative_frame) ==
    IF notes = << >> THEN EmptyChord
    ELSE IF Head(notes).frame = relative_frame THEN Head(notes).chord
    ELSE FindNotes(Tail(notes), relative_frame)

\* no timing model computed yet
NoPosition == [err |-> "none", progress |-> 0, sector |-> 0, angle |-> 0]
NoWrap == [known |-> FALSE, ulps |-> 0]
NoTiming == [op |-> "none", rpm |-> 0, fps |-> 0, err |-> "none",
             frames_per_rotation |-> 0, frames_per_zodiac_section |-> 0,
             cap_err |-> "none", cap_frames_per_rotation |-> 0,
             cap_frames_per_zodiac_section |-> 0,
             frame |-> 0, cap |-> NoPosition, pipe |-> NoWrap]

\* what a RotationDetector call was given and what it answered: the number
\* of descriptors found in the frame (-1: the frame was None), whether an
\* estimate was made, the value returned and the angle delta used
NoCall == [op |-> "none", descriptors |-> 0, estimated |-> FALSE,
           returned |-> [num |-> 0, den |-> 1], angle_diff |-> 0,
           err |-> "none"]

\* self.config = {}: every config.get falls back to its default
DefaultConfig == [sampling_mode |-> "importance", note_count_max |-> 5,
                  velocity_range |-> <<32, 127>>, velocity_threshold |-> 32,
                  default_scale |-> "Piano"]

\* no generate_midi_from_roi call made yet; previous is the ROI and the
\* velocities of the call before the last one (not program state)
NoMapper == [op |-> "none", config |-> DefaultConfig, roi |-> "none",
             available |-> 0, notes |-> << >>, velocities |-> << >>,
             durations |-> << >>,
             previous |-> [roi |-> "none", velocities |-> << >>]]

\* no scanline extracted yet.  A scan records the extractor called, its
\* arguments (given: max_radius was passed, not None) and its outcome.
NoScan == [op |-> "none", center_x |-> 0, center_y |-> 0, angle |-> 0,
           radius |-> 0, given |-> TRUE, x |-> 0, y |-> 0, h |-> 0,
           zodiac_mode |-> FALSE, section |-> 0,
           err |-> "none", profile |-> << >>]

\* no send_midi call made yet.  chord is what the call was handed; note,
\* velocity and duration are the lists of its three OSC messages.
NoOsc == [op |-> "none", chord |-> << >>, note |-> << >>, velocity |-> << >>,
          duration |-> << >>]

\* TurntableController.__init__: no child, no countdown, START enabled and
\* STOP disabled.  process is the id of the child held in self.process
\* (0 for None); alive is the set of children still running; countdowns are
\* the CountdownThreads still counting, oldest first, each with the slot its
\* countdown_finished signal is connected to and whether the child was
\* alive when the request was made.
NoController == [op |-> "none", process |-> 0, launched |-> 0, alive |-> {},
                 start_button |-> TRUE, stop_button |-> FALSE,
                 countdowns |-> << >>, monitor_timer |-> FALSE,
                 aborted |-> FALSE]

\* no RotationDetector constructed yet
NoDetector == [constructed |-> FALSE, fps |-> 0, buffer_size |-> 0,
               has_reference |-> FALSE, reference_count |-> 0,
               last_angle |-> 0, rpm |-> [num |-> 0, den |-> 1],
               rpm_buffer |-> << >>, call |-> NoCall]

(* ------------------------ TurntableScoreRecorder ----------------------- *)
\* __init__(rpm, fps): the fields of a new recorder
NewRecorder(r, f) ==
    [rpm |-> r, fps |-> f,
     frames_per_rotation |-> IF r > 0 THEN FramesPerRotation(r, f) ELSE 0,
     score_data |-> [metadata |-> Metadata(r, f), rotations |-> << >>],
     current_rotation |-> NewRotation(0),
     is_recording |-> FALSE, recorded_rotations |-> 0, is_loaded |-> FALSE,
     session_path |-> FALSE,
     session_files |-> [json |-> << >>, npy |-> << >>]]

RecorderInit(r, f) ==
    LET n == NewRecorder(r, f)
    IN  /\ rpm = n.rpm
        /\ fps = n.fps
        /\ frames_per_rotation = n.frames_per_rotation
        /\ score_data = n.score_data
        /\ current_rotation = n.current_rotation
        /\ is_recording = n.is_recording
        /\ recorded_rotations = n.recorded_rotations
        /\ is_loaded = n.is_loaded
        /\ session_path = n.session_path
        /\ session_files = n.session_files

Init ==
    /\ \E r \in RpmValues, f \in FpsValues :
          /\ RecorderInit(r, f)
          /\ gui = [NoGui EXCEPT !.camera_fps = f]
    /\ frame_count = 0
    /\ last = Call("init", FALSE, EmptyChord, "none", 0)
    /\ hist = NoHist
    /\ timing = NoTiming
    /\ detector = NoDetector
    /\ mapper = NoMapper
    /\ scan = NoScan
    /\ osc = NoOsc
    /\ controller = NoController

\* start_recording(frame_count, scale, roi_mode) on a recorder with fields
\* rec: the fields afterwards.  The session folder it names is a new one.
StartedRecorder(rec, f, scale, roi_mode) ==
    [rec EXCEPT !.is_recording = TRUE,
                !.recorded_rotations = 0,
                !.current_rotation.frame_start = f,
                !.score_data.metadata.scale = scale,
                !.score_data.metadata.roi_mode = roi_mode,
                !.session_path = TRUE,
                !.session_files = [json |-> << >>, npy |-> << >>]]

\* the recorder's fields, as a record
Recorder ==
    [rpm |-> rpm, fps |-> fps, frames_per_rotation |-> frames_per_rotation,
     score_data |-> score_data, current_rotation |-> current_rotation,
     is_recording |-> is_recording, recorded_rotations |-> recorded_rotations,
     is_loaded |-> is_loaded, session_path |-> session_path,
     session_files |-> session_files]

\* the recorder's fields become those of rec
SetRecorder(rec) ==
    /\ rpm' = rec.rpm
    /\ fps' = rec.fps
    /\ frames_per_rotation' = rec.frames_per_rotation
    /\ score_data' = rec.score_data
    /\ current_rotation' = rec.current_rotation
    /\ is_recording' = rec.is_recording
    /\ recorded_rotations' = rec.recorded_rotations
    /\ is_loaded' = rec.is_loaded
    /\ session_path' = rec.session_path
    /\ session_files' = rec.session_files

StartRecording(scale, roi_mode) ==
    /\ Len(score_data.rotations) < MaxRotations
    /\ SetRecorder(StartedRecorder(Recorder, frame_count, scale, roi_mode))
    /\ last' = Call("start_recording", FALSE, EmptyChord, "none", 0)
    /\ hist' = [hist EXCEPT !.active = TRUE, !.reached = FALSE, !.trues = 0,
                            !.start = frame_count]
    /\ UNCHANGED <<frame_count, gui>>
    /\ UNCHANGED aux

\* add_notes without its "if not self.is_recording: return"
AddedNotes_Unguarded(rec, f, chord, raw_roi) ==
    [rec EXCEPT
        !.current_rotation.notes =
            Append(@, [frame |-> f - rec.current_rotation.frame_start,
                       chord |-> chord]),
        !.current_rotation.raw_rois = Append(@, raw_roi)]

\* add_notes(frame_count, midi_notes, velocities, durations, raw_roi) on a
\* recorder with fields rec: the fields afterwards
AddedNotes(rec, f, chord, raw_roi) ==
    IF ~rec.is_recording THEN rec
    ELSE [rec EXCEPT
            !.current_rotation.notes =
                Append(@, [frame |-> f - rec.current_rotation.frame_start,
                           chord |-> chord]),
            !.current_rotation.raw_rois = Append(@, raw_roi)]

RECURSIVE StoredEntries(_)
StoredEntries(rotations) ==
    IF rotations = << >> THEN 0
    ELSE Len(Head(rotations).notes) + StoredEntries(Tail(rotations))

\* number of note entries held in memory
TotalEntries == Len(current_rotation.notes) + StoredEntries(score_data.rotations)

AddNotes(chord, raw_roi) ==
    /\ is_recording => TotalEntries < MaxEntries
    /\ SetRecorder(AddedNotes(Recorder, frame_count, chord, raw_roi))
    /\ last' = Call("add_notes", FALSE, EmptyChord, "none", 0)
    /\ UNCHANGED <<frame_count, hist, gui>>
    /\ UNCHANGED aux

\* str.lower() on the ROI mode names the program uses
Lower(mode) ==
    CASE mode = "Circular" -> "circular"
      [] mode = "Rectangular" -> "rectangular"
      [] OTHER -> mode

\* save_visual_score(roi_list): the score.npy it leaves in the session folder
\* (one panorama column per recorded ROI); nothing is written without a
\* session path, without ROIs, or for an unknown ROI mode
SaveVisualScore(has_path, data, roi_list, npy) ==
    IF ~has_path THEN npy
    ELSE IF roi_list = << >> THEN npy
    ELSE IF Lower(data.metadata.roi_mode) \in {"circular", "rectangular"}
         THEN <<roi_list>>
    ELSE npy

\* save_score(): the score.json it leaves in the session folder
SaveScore(has_path, data, json) ==
    IF ~has_path THEN json ELSE <<data>>

\* stop_recording() that finalizes the rotation in progress before saving
StoppedRecorder_KeepsPartial(rec) ==
    IF ~rec.is_recording THEN rec
    ELSE LET data1 == [rec.score_data EXCEPT
                          !.rotations = Append(@, StoredRotation(rec.current_rotation))]
         IN [rec EXCEPT
               !.is_recording = FALSE,
               !.score_data = data1,
               !.session_files.json = SaveScore(rec.session_path, data1, @)]

\* stop_recording() on a recorder with fields rec: the fields afterwards
StoppedRecorder(rec) ==
    IF ~rec.is_recording THEN rec
    ELSE [rec EXCEPT
            !.is_recording = FALSE,
            !.session_files.json =
                SaveScore(rec.session_path, rec.score_data, @)]

\* the completion test with > written for >=
RotationComplete_Strict(relative_frame, fpr) == relative_frame > fpr

\* the completion test of check_rotation_complete
RotationComplete(relative_frame, fpr) == relative_frame >= fpr

max_rotations == 1

\* check_rotation_complete(frame_count) on a recorder with fields rec: the
\* fields afterwards (rec) and the value returned (ret)
CheckedRecorder(rec, f) ==
    IF ~rec.is_recording THEN [rec |-> rec, ret |-> FALSE]
    ELSE IF RotationComplete(f - rec.current_rotation.frame_start,
                             rec.frames_per_rotation)
    THEN LET saved == IF rec.recorded_rotations = 0
                      THEN [rec EXCEPT !.session_files.npy =
                               SaveVisualScore(rec.session_path, rec.score_data,
                                               rec.current_rotation.raw_rois, @)]
                      ELSE rec
             done == [saved EXCEPT
                        !.recorded_rotations = @ + 1,
                        !.score_data.rotations =
                            Append(@, StoredRotation(rec.current_rotation)),
                        !.current_rotation = NewRotation(f)]
         IN  IF done.recorded_rotations >= max_rotations
             THEN [rec |-> StoppedRecorder(done), ret |-> TRUE]
             ELSE [rec |-> done, ret |-> FALSE]
    ELSE [rec |-> rec, ret |-> FALSE]

\* what the history records of one check_rotation_complete call
CheckHist(f, ret) ==
    LET done == is_recording
                /\ f - current_rotation.frame_start >= frames_per_rotation
    IN [hist EXCEPT
          !.reached = @ \/ (hist.active /\ f - hist.start >= frames_per_rotation),
          !.trues = IF hist.active /\ ret THEN @ + 1 ELSE @,
          !.first_len = IF done /\ score_data.rotations = << >>
                        THEN frames_per_rotation ELSE @]

CheckRotationComplete ==
    /\ UNCHANGED aux
    /\ LET c == CheckedRecorder(Recorder, frame_count)
       IN  /\ SetRecorder(c.rec)
           /\ last' = Call("check_rotation_complete", c.ret, EmptyChord, "none", 0)
           /\ hist' = CheckHist(frame_count, c.ret)
           /\ UNCHANGED <<frame_count, gui>>

StopRecording ==
    /\ SetRecorder(StoppedRecorder(Recorder))
    /\ last' = Call("stop_recording", is_recording, EmptyChord, "none", 0)
    /\ hist' = [hist EXCEPT !.active = FALSE]
    /\ UNCHANGED <<frame_count, gui>>
    /\ UNCHANGED aux

\* main(): an accepted RPM estimate is written into the recorder
\* (score_recorder.rpm / rotation_time / frames_per_rotation)
SetRecorderRpm(r) ==
    /\ r > RpmFloor
    /\ r # rpm
    /\ rpm' = r
    /\ frames_per_rotation' = FramesPerRotation(r, fps)
    /\ last' = Call("set_rpm", FALSE, EmptyChord, "none", 0)
    /\ UNCHANGED <<fps, score_data, current_rotation, is_recording,
                   recorded_rotations, is_loaded, session_path, session_files,
                   frame_count, hist, gui>>
    /\ UNCHANGED aux

\* the caller moves on to the next frame
NextFrame ==
    /\ frame_count < MaxFrame
    /\ frame_count' = frame_count + 1
    /\ last' = Call("next_frame", FALSE, EmptyChord, "none", 0)
    /\ UNCHANGED <<recorder, hist, gui>>
    /\ UNCHANGED aux

(* ------------------------- sessions on disk ---------------------------- *)
\* the score.json of a session recorded earlier: one rotation of two frames
SavedScore ==
    [metadata |-> [rpm |-> 300, fps |-> 1, frames_per_rotation |-> 2,
                   scale |-> "C_PENTATONIC", roi_mode |-> "circular"],
     rotations |-> << [has_notes |-> TRUE,
                       notes |-> << [frame |-> 0, chord |-> ChordA],
                                    [frame |-> 1, chord |-> ChordB] >>,
                       raw_rois |-> << <<255>>, <<255>> >>] >>]

\* the columns of that session's score.npy
SavedArray == << <<255>>, <<255>> >>

\* a session folder: each file is absent, unreadable ("corrupt") or readable
FileStates == {"absent", "corrupt", "ok"}
Sessions == [json : FileStates, npy : FileStates]

\* load_score(filename): the new score_data and the value returned
LoadScore(file, data) ==
    IF file = "ok" THEN [data |-> SavedScore, ret |-> TRUE]
    ELSE [data |-> data, ret |-> FALSE]

\* the score.npy half of load_score_from_session: the panorama is split
\* into one raw ROI per column and replaces score_data['rotations']
LoadArray(file, data) ==
    IF file = "ok"
    THEN [data |-> [data EXCEPT !.rotations =
                       << [has_notes |-> FALSE, notes |-> << >>,
                           raw_rois |-> SavedArray] >>],
          ret |-> TRUE]
    ELSE [data |-> data, ret |-> FALSE]

\* is_loaded after load_score_from_session, whose result was loaded
LoadedFlag(loaded, was_loaded) == TRUE

\* load_score_from_session(session_path) on a recorder with fields rec: the
\* fields afterwards (rec) and the value returned (ret)
LoadedRecorder(rec, session) ==
    LET j == IF session.json # "absent"
             THEN LoadScore(session.json, rec.score_data)
             ELSE [data |-> rec.score_data, ret |-> FALSE]
        n == IF session.npy # "absent"
             THEN LoadArray(session.npy, j.data)
             ELSE [data |-> j.data, ret |-> FALSE]
        m == j.data.metadata
    IN  [rec |-> [rec EXCEPT
                    !.score_data = n.data,
                    !.rpm = IF j.ret THEN m.rpm ELSE @,
                    !.fps = IF j.ret THEN m.fps ELSE @,
                    !.frames_per_rotation =
                        IF j.ret THEN FramesPerRotation(m.rpm, m.fps) ELSE @,
                    !.is_loaded = LoadedFlag(j.ret \/ n.ret, @)],
         ret |-> (j.ret \/ n.ret)]

LoadScoreFromSession(session) ==
    /\ UNCHANGED aux
    /\ LET r == LoadedRecorder(Recorder, session)
       IN  /\ SetRecorder(r.rec)
           /\ last' = Call("load_score_from_session", r.ret, EmptyChord, "none", 0)
           /\ hist' = IF r.ret THEN [hist EXCEPT !.first_len = 0] ELSE hist
           /\ UNCHANGED <<frame_count, gui>>

(* ------------------------------ playback ------------------------------- *)
\* The caller passes its frame counter, as main() and process_logic do.
\* get_playback_notes(frame_count): the chord returned, or the exception
PlaybackNotes(data, fpr, k) ==
    IF data.rotations = << >> THEN [chord |-> EmptyChord, err |-> "none"]
    ELSE IF fpr = 0 THEN [chord |-> EmptyChord, err |-> "ZeroDivisionError"]
    ELSE IF ~data.rotations[1].has_notes
         THEN [chord |-> EmptyChord, err |-> "KeyError"]
    ELSE [chord |-> FindNotes(data.rotations[1].notes, k % fpr), err |-> "none"]

\* utils.audio_utils_simple.process_roi_to_midi_data: raises unconditionally
process_roi_to_midi_data == [chord |-> EmptyChord, err |-> "DeprecationWarning"]

\* process_circular_roi_to_midi_data(scanline_values, scale)
process_circular_roi_to_midi_data(scanline) ==
    IF Len(scanline) = 0 THEN [chord |-> EmptyChord, err |-> "none"]
    ELSE process_roi_to_midi_data

\* get_playback_notes_from_npy(frame_count)
PlaybackNotesFromNpy(data, k) ==
    IF data.rotations = << >> THEN [chord |-> EmptyChord, err |-> "none"]
    ELSE LET rois == data.rotations[1].raw_rois
         IN  IF rois = << >> THEN [chord |-> EmptyChord, err |-> "none"]
             ELSE IF data.metadata.roi_mode = "circular"
                  THEN process_circular_roi_to_midi_data(rois[(k % Len(rois)) + 1])
             ELSE process_roi_to_midi_data

GetPlaybackNotes ==
    /\ UNCHANGED aux
    /\ LET r == PlaybackNotes(score_data, frames_per_rotation, frame_count)
       IN  /\ last' = Call("get_playback_notes", r.err = "none", r.chord, r.err,
                           frame_count)
           /\ UNCHANGED <<recorder, frame_count, hist, gui>>

GetPlaybackNotesFromNpy ==
    /\ UNCHANGED aux
    /\ LET r == PlaybackNotesFromNpy(score_data, frame_count)
       IN  /\ last' = Call("get_playback_notes_from_npy", r.err = "none", r.chord,
                           r.err, frame_count)
           /\ UNCHANGED <<recorder, frame_count, hist, gui>>

(* ------------------ the recorder driven call by call ------------------- *)
Next ==
    \/ \E scale \in Scales, roi_mode \in RoiModes : StartRecording(scale, roi_mode)
    \/ \E chord \in Chords, raw_roi \in Profiles : AddNotes(chord, raw_roi)
    \/ CheckRotationComplete
    \/ StopRecording
    \/ \E r \in RpmValues : SetRecorderRpm(r)
    \/ GetPlaybackNotes
    \/ NextFrame

Spec == Init /\ [][Next]_vars

(* --------------- the recorder with sessions loaded from disk ----------- *)
NextLoad ==
    \/ \E session \in Sessions : LoadScoreFromSession(session)
    \/ GetPlaybackNotes
    \/ GetPlaybackNotesFromNpy
    \/ \E scale \in Scales, roi_mode \in RoiModes : StartRecording(scale, roi_mode)
    \/ \E chord \in Chords, raw_roi \in Profiles : AddNotes(chord, raw_roi)
    \/ CheckRotationComplete
    \/ NextFrame

SpecLoad == Init /\ [][NextLoad]_vars

(* --------------------------- the GUI pipeline -------------------------- *)
\* update_frame(frame): the camera thread delivered a frame
UpdateFrame ==
    /\ gui' = [gui EXCEPT !.has_frame = TRUE]
    /\ last' = Call("update_frame", FALSE, EmptyChord, "none", 0)
    /\ hist' = [hist EXCEPT !.new_frame = TRUE]
    /\ UNCHANGED <<recorder, frame_count>>
    /\ UNCHANGED aux

\* load_score_session(): a session folder was chosen in the dialog
LoadScoreSession(session) ==
    /\ ~gui.is_running
    /\ LET r == LoadedRecorder(NewRecorder(LoadRpm, LoadFps), session)
           rot == r.rec.score_data.rotations
       IN  /\ SetRecorder(r.rec)
           /\ gui' = [gui EXCEPT !.has_recorder = TRUE,
                                 !.playback_enabled = r.ret,
                                 !.is_playback_mode = IF r.ret THEN TRUE ELSE @]
           /\ last' = Call("load_score_session", r.ret, EmptyChord, "none", 0)
           /\ hist' = [hist EXCEPT !.finalized =
                         IF r.ret /\ rot # << >>
                         THEN [exists |-> TRUE, has_notes |-> rot[1].has_notes,
                               notes |-> rot[1].notes,
                               fpr |-> r.rec.frames_per_rotation]
                         ELSE NoFinalized]
    /\ UNCHANGED frame_count
    /\ UNCHANGED aux

\* toggle_playback_mode(): the (enabled) playback button was clicked
TogglePlaybackMode ==
    /\ gui.playback_enabled
    /\ gui' = IF ~gui.has_recorder \/ score_data.rotations = << >>
              THEN gui
              ELSE [gui EXCEPT !.is_playback_mode = ~@]
    /\ last' = Call("toggle_playback_mode", FALSE, EmptyChord, "none", 0)
    /\ UNCHANGED <<recorder, frame_count, hist>>
    /\ UNCHANGED aux

\* current_angle = (frame_count * timing_info['degrees_per_frame']) % 360,
\* degrees_per_frame being 360.0 / frames_per_rotation; the frame counts the
\* GUI model reaches divide 360, so the angle is a whole number of degrees
ScanAngle(k, fpr) == (k * (360 \div fpr)) % 360

\* start_logic(): Start pressed with the controls at the given positions
StartLogic(slider, use_detect, do_record, scale, roi_mode) ==
    /\ ~gui.is_running
    /\ LET n == NewRecorder(slider, gui.camera_fps)
       IN  SetRecorder(IF do_record /\ ~gui.is_playback_mode
                       THEN StartedRecorder(n, 0, scale, roi_mode)
                       ELSE n)
    /\ gui' = [gui EXCEPT
                 !.is_running = TRUE,
                 !.timing_fpr = FramesPerRotation(slider, gui.camera_fps),
                 !.nominal_rpm = slider,
                 !.current_angle = 0,
                 !.has_detector = @ \/ use_detect,
                 !.has_recorder = TRUE,
                 !.has_roi = @ \/ gui.has_frame]
    /\ frame_count' = 0
    /\ last' = Call("start_logic", FALSE, EmptyChord, "none", 0)
    /\ hist' = [hist EXCEPT
                  !.checks = 0,
                  !.finalized = IF do_record /\ ~gui.is_playback_mode
                                THEN NoFinalized ELSE @]
    /\ UNCHANGED aux

\* stop_logic(): Stop pressed
StopLogic ==
    /\ gui.is_running
    /\ gui' = [gui EXCEPT !.is_running = FALSE]
    /\ last' = Call("stop_logic", FALSE, EmptyChord, "none", 0)
    /\ UNCHANGED <<recorder, frame_count, hist>>
    /\ UNCHANGED aux

\* process_logic(): one timer tick.  detected is the RotationDetector's
\* estimate, chord what generate_midi_from_roi maps the ROI to and raw_roi
\* the scanline read.  last.chord is the chord handed to send_midi.
ProcessLogic(detected, chord, raw_roi) ==
    /\ gui.is_running /\ gui.has_frame
    /\ ~gui.has_detector => detected = 0
    /\ frame_count < MaxTicks
    /\ LET accepted == gui.has_detector /\ detected > RpmFloor
           new_fpr == IF accepted
                      THEN FramesPerRotation(detected, gui.camera_fps)
                      ELSE gui.timing_fpr
           seen == IF gui.has_detector THEN detected
                   ELSE gui.detected_rpm_value
           playing == gui.is_playback_mode
           pb == IF playing /\ gui.has_recorder /\ is_loaded
                 THEN PlaybackNotes(score_data, frames_per_rotation, frame_count)
                 ELSE [chord |-> EmptyChord, err |-> "none"]
           \* score_recorder.update_rpm does not exist
           err == IF accepted /\ gui.has_recorder THEN "AttributeError"
                  ELSE pb.err
           midi == IF playing THEN pb.chord
                   ELSE IF gui.has_roi THEN chord ELSE EmptyChord
           live == ~playing /\ gui.has_recorder
           added == IF midi # EmptyChord /\ live /\ is_recording
                    THEN AddedNotes(Recorder, frame_count, midi, raw_roi)
                    ELSE Recorder
           checking == live /\ added.is_recording
           c == IF checking THEN CheckedRecorder(added, frame_count)
                ELSE [rec |-> added, ret |-> FALSE]
       IN  IF err # "none"
           THEN /\ gui' = [gui EXCEPT !.timing_fpr = new_fpr,
                                      !.detected_rpm_value = seen]
                /\ last' = Call("process_logic", FALSE, EmptyChord, err,
                                frame_count)
                /\ hist' = [hist EXCEPT !.new_frame = FALSE]
                /\ UNCHANGED <<recorder, frame_count>>
           ELSE /\ SetRecorder(c.rec)
                /\ gui' = [gui EXCEPT !.timing_fpr = new_fpr,
                                      !.detected_rpm_value = seen,
                                      !.current_angle =
                                          ScanAngle(frame_count, new_fpr),
                                      !.playback_enabled = @ \/ c.ret]
                /\ frame_count' = frame_count + 1
                /\ last' = Call("process_logic", TRUE, midi, "none", frame_count)
                /\ hist' = [hist EXCEPT
                              !.new_frame = FALSE,
                              !.checks = IF checking THEN @ + 1 ELSE @,
                              !.finalized =
                                  IF c.ret
                                  THEN [exists |-> TRUE, has_notes |-> TRUE,
                                        notes |-> added.current_rotation.notes,
                                        fpr |-> added.frames_per_rotation]
                                  ELSE @]
    /\ UNCHANGED aux

NextGui ==
    \/ UpdateFrame
    \/ \E session \in Sessions : LoadScoreSession(session)
    \/ TogglePlaybackMode
    \/ \E slider \in SliderValues, use_detect \in BOOLEAN, do_record \in BOOLEAN,
          scale \in Scales, roi_mode \in GuiRoiModes :
            StartLogic(slider, use_detect, do_record, scale, roi_mode)
    \/ StopLogic
    \/ \E detected \in DetectedValues, chord \in Chords, raw_roi \in Profiles :
            ProcessLogic(detected, chord, raw_roi)

SpecGui == Init /\ [][NextGui]_vars

(* ---------------------------- the timing model ------------------------- *)
\* Setup values: RPM in tenths (2.5, 2.8 and 120 rpm, and the non-positive
\* 0 and -1.0) and camera frame rates.  On every pair drawn here the double
\* results of 60.0 / rpm * fps and of its twelfth, truncated by int(), are
\* the integer quotients below.
TimingRpms == {25, 28, 1200, 0, -10}
TimingFps == {1, 30}

\* calculate_timing_parameters(rpm, fps): the dictionary returned, or the
\* exception of 60.0 / rpm or of 360.0 / frames_per_rotation
TimingParameters(r, f) ==
    IF r = 0
    THEN [err |-> "ZeroDivisionError", frames_per_rotation |-> 0,
          frames_per_zodiac_section |-> 0]
    ELSE LET fpr == TruncDiv(600 * f, r)
             fpz == TruncDiv(50 * f, r)
         IN  [err |-> IF fpr = 0 THEN "ZeroDivisionError" ELSE "none",
              frames_per_rotation |-> fpr,
              frames_per_zodiac_section |-> fpz]

\* CorrectedAudioProcessor(rpm=r) followed by update_fps_dependent_values(f)
ProcessorValues(r, f) ==
    IF r = 0
    THEN [err |-> "ZeroDivisionError", frames_per_rotation |-> 0,
          frames_per_zodiac_section |-> 0]
    ELSE [err |-> "none",
          frames_per_rotation |-> TruncDiv(600 * f, r),
          frames_per_zodiac_section |-> TruncDiv(50 * f, r)]

\* the sector of calculate_current_position with the frame index moved by one
ZodiacSection_Shifted(k, fpz) == ((k + 1) \div fpz) % 12

\* zodiac_section of calculate_current_position
ZodiacSection(k, fpz) == (k \div fpz) % 12

\* calculate_current_position(frame_count): rotation_progress and
\* angle_degrees are kept as numerators over frames_per_rotation
CurrentPosition(k, fpr, fpz) ==
    IF fpr = 0 \/ fpz = 0
    THEN [err |-> "ZeroDivisionError", progress |-> 0, sector |-> 0, angle |-> 0]
    ELSE [err |-> "none",
          progress |-> k % fpr,
          sector |-> ZodiacSection(k, fpz),
          angle |-> (k % fpr) * 360]

\* floor(angle / 30) mod 12 for an angle given as a numerator over fpr
SectorOfAngle(angle, fpr) == (angle \div (30 * fpr)) % 12

RECURSIVE PowMod(_, _, _)
\* b^e mod n
PowMod(b, e, n) ==
    IF e = 0 THEN 1 % n ELSE (b * PowMod(b, e - 1, n)) % n

RECURSIVE Log2Floor(_, _)
\* the largest e with 2^e * n <= a, for a >= n > 0
Log2Floor(a, n) == IF 2 * n > a THEN 0 ELSE 1 + Log2Floor(a, 2 * n)

RECURSIVE Log2Ceil(_, _)
\* the least e with 2^e * a >= n, for a > 0
Log2Ceil(a, n) == IF a >= n THEN 0 ELSE 1 + Log2Ceil(2 * a, n)

\* floor(log2(360 / n))
QuotientExponent(n) ==
    IF n <= 360 THEN Log2Floor(360, n) ELSE -Log2Ceil(360, n)

\* The pipelines compute the angle as (frame_count * degrees_per_frame) % 360
\* with degrees_per_frame = 360.0 / frames_per_rotation, in IEEE doubles.
\* At frame_count = n = frames_per_rotation the product is 360 + d / 2^s with
\* s = 52 - floor(log2(360 / n)) and d = n * M - 360 * 2^s, M being the
\* 53-bit significand of the rounded quotient; rounded to the doubles around
\* 360 (spacing 2^-44) it is 360 + j * 2^-44.  WrapUlps is j: the angle at
\* the wraparound frame is 0.0 for j = 0, 2^-44 for j = 1 and
\* 360 - 2^-44 for j = -1.
WrapUlps(n) ==
    LET e == QuotientExponent(n)
        r == ((360 % n) * PowMod(2, 52 - e, n)) % n
        d == IF 2 * r < n THEN -r ELSE n - r
        half == 2 ^ (7 - e)
    IN  IF Abs(d) > half THEN (IF d > 0 THEN 1 ELSE -1) ELSE 0

\* the pipeline angle at frame k, known where its rounding is modelled
PipelineWrap(k, fpr) ==
    IF k = 0 THEN [known |-> TRUE, ulps |-> 0]
    ELSE IF k = fpr THEN [known |-> TRUE, ulps |-> WrapUlps(fpr)]
    ELSE NoWrap

\* a run is set up with rpm r and frame rate f: calculate_timing_parameters
\* and the processor's FPS-dependent values
ConfigureTiming(r, f) ==
    /\ LET t == TimingParameters(r, f)
           p == ProcessorValues(r, f)
       IN  timing' = [NoTiming EXCEPT
                        !.op = "configure", !.rpm = r, !.fps = f,
                        !.err = t.err,
                        !.frames_per_rotation = t.frames_per_rotation,
                        !.frames_per_zodiac_section = t.frames_per_zodiac_section,
                        !.cap_err = p.err,
                        !.cap_frames_per_rotation = p.frames_per_rotation,
                        !.cap_frames_per_zodiac_section =
                            p.frames_per_zodiac_section]
    /\ UNCHANGED <<recorder, frame_count, last, hist, gui, detector, stages>>

\* the position of frame k is computed, k running over one rotation and
\* the frame that closes it
Position(k) ==
    /\ timing.op # "none"
    /\ timing.rpm > 0 /\ timing.cap_err = "none"
    /\ k <= MaxIndex /\ k <= timing.cap_frames_per_rotation
    /\ k = IF timing.op = "configure" THEN 0 ELSE timing.frame + 1
    /\ timing' = [timing EXCEPT
                    !.op = "position",
                    !.frame = k,
                    !.cap = CurrentPosition(k, timing.cap_frames_per_rotation,
                                            timing.cap_frames_per_zodiac_section),
                    !.pipe = IF timing.err = "none"
                             THEN PipelineWrap(k, timing.frames_per_rotation)
                             ELSE NoWrap]
    /\ UNCHANGED <<recorder, frame_count, last, hist, gui, detector, stages>>

\* TurntableScoreRecorder(r, f)
ConstructRecorder(r, f) ==
    /\ IF r = 0
       THEN /\ last' = Call("__init__", FALSE, EmptyChord, "ZeroDivisionError", 0)
            /\ UNCHANGED recorder
       ELSE /\ last' = Call("__init__", TRUE, EmptyChord, "none", 0)
            /\ SetRecorder(NewRecorder(r, f))
    /\ UNCHANGED <<frame_count, hist, gui, aux>>

NextTiming ==
    \/ \E r \in TimingRpms, f \in TimingFps : ConfigureTiming(r, f)
    \/ \E k \in 0..MaxIndex : Position(k)
    \/ \E r \in TimingRpms, f \in TimingFps : ConstructRecorder(r, f)

SpecTiming == Init /\ [][NextTiming]_vars

(* -------------------------- RotationDetector --------------------------- *)
\* Frames are given by what ORB finds in them: the number of descriptors
\* (0: detectAndCompute returns None), the number of cross-checked matches
\* with the reference, whether estimateAffinePartial2D fits a transform
\* (it returns None otherwise) and that transform's rotation angle in
\* degrees.  Angles are those
\* np.degrees(np.arctan2(..)) returns, in (-180, 180].
DescriptorCounts == {0, 5, 12}
MatchCounts == {0, 5, 12}
Angles == {-90, 0, 90, 180}
MinDescriptors == 10
BufferSizes == {2}

RECURSIVE Gcd(_, _)
Gcd(a, b) == IF b = 0 THEN a ELSE Gcd(b, a % b)

RECURSIVE Sum(_)
Sum(seq) == IF seq = << >> THEN 0 ELSE Head(seq) + Sum(Tail(seq))

\* np.mean of a non-empty buffer, as a fraction in lowest terms
Mean(buf) ==
    LET g == Gcd(Sum(buf), Len(buf))
    IN  [num |-> Sum(buf) \div g, den |-> Len(buf) \div g]

\* deque(maxlen=size).append(x)
DequeAppend(buf, x, size) ==
    IF Len(buf) < size THEN Append(buf, x) ELSE Append(Tail(buf), x)

\* angle_diff of calculate_rpm after its 360-degree boundary handling
NormalizedDelta(angle, last_angle) ==
    LET diff == angle - last_angle
    IN  IF diff > 180 THEN diff - 360
        ELSE IF diff < -180 THEN diff + 360
        ELSE diff

\* abs(angle_diff * fps / 6.0), in tenths of an rpm
InstantRpm(angle_diff, f) == (Abs(angle_diff) * f * 10) \div 6

\* RotationDetector(fps, buffer_size)
ConstructDetector(f, size) ==
    /\ ~detector.constructed
    /\ detector' = [NoDetector EXCEPT !.constructed = TRUE, !.fps = f,
                                      !.buffer_size = size]
    /\ UNCHANGED <<recorder, frame_count, last, hist, gui, timing, stages>>

\* set_reference_frame(None)
SetReferenceNone ==
    /\ detector.constructed
    /\ detector' = [detector EXCEPT
                      !.call = [NoCall EXCEPT !.op = "set_reference_frame",
                                              !.descriptors = -1]]
    /\ UNCHANGED <<recorder, frame_count, last, hist, gui, timing, stages>>

\* set_reference_frame(frame), ORB finding count features under the mask
SetReferenceFrame(count) ==
    /\ detector.constructed
    /\ detector' = [detector EXCEPT
                      !.has_reference = (count > 0),
                      !.reference_count = count,
                      !.last_angle = 0,
                      !.rpm_buffer = << >>,
                      !.call = [NoCall EXCEPT !.op = "set_reference_frame",
                                              !.descriptors = count]]
    /\ UNCHANGED <<recorder, frame_count, last, hist, gui, timing, stages>>

\* calculate_rpm(None)
CalculateRpmNone ==
    /\ detector.constructed
    /\ detector' = [detector EXCEPT
                      !.call = [NoCall EXCEPT !.op = "calculate_rpm",
                                              !.descriptors = -1]]
    /\ UNCHANGED <<recorder, frame_count, last, hist, gui, timing, stages>>

\* calculate_rpm(current_frame)
CalculateRpm(count, matches, fit, angle) ==
    /\ detector.constructed
    /\ matches <= count
    /\ matches <= (IF detector.has_reference THEN detector.reference_count ELSE 0)
    /\ LET call == [NoCall EXCEPT !.op = "calculate_rpm", !.descriptors = count]
           good == IF matches < 25 THEN matches ELSE 25
       IN  IF ~detector.has_reference
           THEN detector' = [detector EXCEPT !.call = call]
           ELSE IF count < MinDescriptors \/ good < 10 \/ ~fit
           THEN detector' = [detector EXCEPT
                               !.call = [call EXCEPT !.returned = detector.rpm]]
           ELSE LET diff == NormalizedDelta(angle, detector.last_angle)
                    buf == DequeAppend(detector.rpm_buffer,
                                       InstantRpm(diff, detector.fps),
                                       detector.buffer_size)
                IN  detector' = [detector EXCEPT
                                   !.last_angle = angle,
                                   !.rpm_buffer = buf,
                                   !.rpm = Mean(buf),
                                   !.call = [call EXCEPT !.estimated = TRUE,
                                                         !.returned = Mean(buf),
                                                         !.angle_diff = diff]]
    /\ UNCHANGED <<recorder, frame_count, last, hist, gui, timing, stages>>

NextDetector ==
    \/ \E f \in FpsValues, size \in BufferSizes : ConstructDetector(f, size)
    \/ SetReferenceNone
    \/ \E count \in DescriptorCounts : SetReferenceFrame(count)
    \/ CalculateRpmNone
    \/ \E count \in DescriptorCounts, matches \in MatchCounts,
          fit \in BOOLEAN, angle \in Angles :
            CalculateRpm(count, matches, fit, angle)

SpecDetector == Init /\ [][NextDetector]_vars

(* ------------------------ generate_midi_from_roi ----------------------- *)
\* config['scales']['definitions']
ScaleDefinitions == [Piano |-> 21..108, Triad |-> {60, 64, 67},
                     Outside |-> {12, 120}]

\* the configurations loaded from config.json
Configs ==
    {[sampling_mode |-> "importance", note_count_max |-> n,
      velocity_range |-> <<32, 127>>, velocity_threshold |-> t,
      default_scale |-> "Triad"] : n \in {-1, 0, 2}, t \in {32, 40}} \cup
    {[sampling_mode |-> "random", note_count_max |-> 2,
      velocity_range |-> <<32, 127>>, velocity_threshold |-> 40,
      default_scale |-> "Triad"]} \cup
    {[sampling_mode |-> "importance", note_count_max |-> 2,
      velocity_range |-> <<32, 127>>, velocity_threshold |-> 40,
      default_scale |-> sc] : sc \in {"Piano", "Outside"}}

\* The ROIs handed to the mapper, one pixel wide as the GUI builds them
\* (uint8): the number of rows and each row's intensity.  "mixed" has black
\* rows at pitches 64 and 62 and grey (55) rows at pitches 67 and 60.
Rois == {"empty", "black", "white", "mixed", "short"}

RoiHeight(roi) ==
    IF roi = "empty" THEN 0 ELSE IF roi = "short" THEN 44 ELSE 88

RoiGray(roi, i) ==
    IF roi \in {"black", "short"} THEN 0
    ELSE IF roi = "white" THEN 255
    ELSE IF i \in {44, 46} THEN 0
    ELSE IF i \in {41, 48} THEN 55
    ELSE 255

\* the row means without the brightness inversion
Magnitude_NotInverted(roi, i) ==
    IF RoiHeight(roi) = 88 THEN RoiGray(roi, i) ELSE RoiGray(roi, 0)

\* np.mean(roi_normalized, axis=1)[i] of the inverted ROI brought to 88 rows;
\* the linear resize of a constant image is that constant
Magnitude(roi, i) ==
    IF RoiHeight(roi) = 88 THEN 255 - RoiGray(roi, i) ELSE 255 - RoiGray(roi, 0)

\* np.interp(magnitude, [100, 255], vel_range), times 155
Interp(magnitude, vel_range) ==
    IF magnitude <= 100 THEN vel_range[1] * 155
    ELSE IF magnitude >= 255 THEN vel_range[2] * 155
    ELSE vel_range[1] * 155 + (magnitude - 100) * (vel_range[2] - vel_range[1])

\* piano_notes[i] of np.arange(108, 20, -1)
PianoNote(i) == 108 - i

\* scale_notes: the configured scale's definition, the piano range when the
\* name has none
ScaleNotes(config) ==
    IF config.default_scale \in DOMAIN ScaleDefinitions
    THEN ScaleDefinitions[config.default_scale]
    ELSE 21..108

\* available_scale_notes, in descending order
AvailableScaleNotes(scale_notes) ==
    LET In(n) == n \in scale_notes
    IN  SelectSeq([i \in 1..88 |-> PianoNote(i - 1)], In)

\* np.abs(available - note).argmin(): the first index of the least distance
ArgMin(available, note) ==
    LET distances == {Abs(available[k] - note) : k \in 1..Len(available)}
        least == CHOOSE d \in distances : \A e \in distances : d <= e
        at == {k \in 1..Len(available) : Abs(available[k] - note) = least}
    IN  CHOOSE j \in at : \A k \in at : j <= k

\* The candidates loop: row i is appended when its velocity reaches the
\* threshold and no candidate has its note yet, that is, when no earlier row
\* reaching the threshold maps to the same note.  Index r stands for row
\* r - 1.
Candidates(roi, config, available) ==
    LET note == SubSeq([r \in 1..88 |->
                           available[ArgMin(available, PianoNote(r - 1))]], 1, 88)
        velocity == SubSeq([r \in 1..88 |->
                               Interp(Magnitude(roi, r - 1),
                                      config.velocity_range)], 1, 88)
        loud == {r \in 1..88 : velocity[r] >= config.velocity_threshold * 155}
        Kept(r) == /\ r \in loud
                   /\ \A j \in loud : j < r => note[j] # note[r]
        rows == SelectSeq([r \in 1..88 |-> r], Kept)
    IN  SubSeq([c \in 1..Len(rows) |-> <<note[rows[c]], velocity[rows[c]]>>],
               1, Len(rows))

\* list.sort(key=velocity, reverse=True): descending, and stable, so that a
\* candidate comes after those of greater velocity and the earlier ones of
\* equal velocity
SortByVelocity(candidates) ==
    LET n == Len(candidates)
        rank == SubSeq([a \in 1..n |->
                    Cardinality({b \in 1..n : candidates[b][2] > candidates[a][2]})
                    + Cardinality({b \in 1..a : candidates[b][2] = candidates[a][2]})],
                    1, n)
    IN  SubSeq([k \in 1..n |-> candidates[CHOOSE a \in 1..n : rank[a] = k]], 1, n)

\* the orders random.shuffle can leave n candidates in
Shuffles(n) ==
    {p \in [1..n -> 1..n] : \A a, b \in 1..n : a # b => p[a] # p[b]}

\* the slice seq[:n]
Slice(seq, n) ==
    IF n >= 0 THEN SubSeq(seq, 1, IF n < Len(seq) THEN n ELSE Len(seq))
    ELSE SubSeq(seq, 1, IF Len(seq) + n > 0 THEN Len(seq) + n ELSE 0)

\* the values random.uniform(500, 3000) is drawn from
DurationValues == {500, 3000}

\* TurntableGUI.__init__: config.json is read into self.config
LoadConfig(config) ==
    /\ mapper' = [NoMapper EXCEPT !.op = "load_config", !.config = config]
    /\ UNCHANGED <<recorder, frame_count, last, hist, gui, timing, detector,
                   scan, osc, controller>>

\* generate_midi_from_roi(roi_gray, self.config)
GenerateMidiFromRoi(roi) ==
    /\ mapper.op # "none"
    /\ LET config == mapper.config
           available == AvailableScaleNotes(ScaleNotes(config))
           candidates == IF RoiHeight(roi) = 0 \/ available = << >> THEN << >>
                         ELSE Candidates(roi, config, available)
           n == Len(candidates)
           orders == IF config.sampling_mode = "random"
                     THEN {[a \in 1..n |-> candidates[p[a]]] : p \in Shuffles(n)}
                     ELSE {SortByVelocity(candidates)}
       IN  \E ordered \in orders :
                LET final_notes == Slice(ordered, config.note_count_max)
                    m == Len(final_notes)
                IN  \E d \in [1..m -> DurationValues] :
                      mapper' = [mapper EXCEPT
                                   !.op = "generate_midi_from_roi",
                                   !.roi = roi,
                                   !.available = Len(available),
                                   !.notes = [a \in 1..m |-> final_notes[a][1]],
                                   !.velocities =
                                       [a \in 1..m |-> final_notes[a][2] \div 155],
                                   !.durations = d,
                                   !.previous = [roi |-> mapper.roi,
                                                 velocities |-> mapper.velocities]]
    /\ UNCHANGED <<recorder, frame_count, last, hist, gui, timing, detector,
                   scan, osc, controller>>

NextMapper ==
    \/ \E config \in Configs : LoadConfig(config)
    \/ \E roi \in Rois : GenerateMidiFromRoi(roi)

SpecMapper == Init /\ [][NextMapper]_vars

(* ------------------------- scanline extractors ------------------------- *)
\* The camera frame: frame.shape[0] rows and frame.shape[1] columns of BGR
\* pixels (v, v, v), whose grey value is v under both conversions used.
FrameShape == <<2, 3>>

FrameGray(x, y) == 60 + 50 * x + 10 * y

\* Scan angles in degrees whose cosine and sine leave, after the truncation
\* to int, the coordinates center + r * (dx, dy)
ScanAngles == {0, 90, 180}

Direction(angle) ==
    IF angle = 0 THEN <<1, 0>> ELSE IF angle = 90 THEN <<0, 1>> ELSE <<-1, 0>>

CenterXs == {0, 1, 3}
CenterYs == {0, 1}
ScanRadii == 0..3

InFrame(x, y) ==
    /\ 0 <= x /\ x < FrameShape[2]
    /\ 0 <= y /\ y < FrameShape[1]

\* int(np.sqrt(n)) for a non-negative integer n
ISqrt(n) == CHOOSE k \in 0..n : k * k <= n /\ n < (k + 1) * (k + 1)

\* max_radius when None was passed: the distance to the farthest corner
CornerRadius(center_x, center_y) ==
    LET squares == {(cx - center_x) * (cx - center_x)
                      + (cy - center_y) * (cy - center_y) :
                        cx \in {0, FrameShape[2]}, cy \in {0, FrameShape[1]}}
    IN  ISqrt(CHOOSE d \in squares : \A e \in squares : e <= d)

\* the sample of radius r: its coordinates and the pixel's grey value
Sample(center_x, center_y, angle, r) ==
    LET x == center_x + r * Direction(angle)[1]
        y == center_y + r * Direction(angle)[2]
    IN  [inside |-> InFrame(x, y),
         gray |-> IF InFrame(x, y) THEN FrameGray(x, y) ELSE 0]

\* the loop of extract_roi_pixels_circular: one value per radius, 0 for a
\* sample outside the frame
ZeroFilledScanline(center_x, center_y, angle, n) ==
    [r \in 1..n |-> Sample(center_x, center_y, angle, r - 1).gray]

\* extract_radial_scanline: the grey values of the samples under valid_mask
RadialScanline(center_x, center_y, angle, n) ==
    LET Valid(r) == Sample(center_x, center_y, angle, r - 1).inside
        valid == SelectSeq([r \in 1..n |-> r], Valid)
    IN  [v \in 1..Len(valid) |->
            Sample(center_x, center_y, angle, valid[v] - 1).gray]

\* extract_radial_scanline(frame, center_x, center_y, angle_degrees, max_radius)
ExtractRadialScanline(center_x, center_y, angle, radius, given) ==
    /\ ~given => radius = 0
    /\ LET n == IF given THEN radius ELSE CornerRadius(center_x, center_y)
       IN  scan' = [NoScan EXCEPT
                      !.op = "extract_radial_scanline",
                      !.center_x = center_x, !.center_y = center_y,
                      !.angle = angle, !.radius = n, !.given = given,
                      !.profile = RadialScanline(center_x, center_y, angle, n)]
    /\ UNCHANGED <<recorder, frame_count, last, hist, gui, timing, detector,
                   mapper, osc, controller>>

\* extract_roi_pixels_circular(frame, center_coords, radius, frame_count),
\* angle being the one calculate_current_position returns
ExtractRoiPixelsCircular(center_x, center_y, angle, radius) ==
    /\ scan' = [NoScan EXCEPT
                  !.op = "extract_roi_pixels_circular",
                  !.center_x = center_x, !.center_y = center_y,
                  !.angle = angle, !.radius = radius,
                  !.profile = ZeroFilledScanline(center_x, center_y, angle,
                                                 radius)]
    /\ UNCHANGED <<recorder, frame_count, last, hist, gui, timing, detector,
                   mapper, osc, controller>>

\* the indices a[start:stop] selects from an axis of length n
SliceIndices(n, start, stop) ==
    LET Norm(i) == IF i < 0 THEN (IF i + n < 0 THEN 0 ELSE i + n)
                   ELSE IF i > n THEN n ELSE i
    IN  {i \in 0..(n - 1) : Norm(start) <= i /\ i < Norm(stop)}

\* self.zodiac_range
zodiac_range == 88

\* extract_roi_pixels_rectangular(frame, (x, y, w, h), frame_count), section
\* being the one calculate_current_position returns.  vertical_frame has
\* frame.shape[1] rows and frame.shape[0] columns; its pixel [i, j] is the
\* frame's [shape[0] - 1 - j, i].
ExtractRoiPixelsRectangular(x, y, h, zodiac_mode, section) ==
    /\ ~zodiac_mode => section = 0
    /\ LET top == IF zodiac_mode THEN y + section * zodiac_range ELSE y
           height == IF zodiac_mode THEN zodiac_range ELSE h
           rows == SliceIndices(FrameShape[2], top, top + height)
           cols == SliceIndices(FrameShape[1], x, x + 1)
           first == CHOOSE i \in rows : \A k \in rows : i <= k
       IN  scan' = [NoScan EXCEPT
                      !.op = "extract_roi_pixels_rectangular",
                      !.x = x, !.y = y, !.h = h,
                      !.zodiac_mode = zodiac_mode, !.section = section,
                      !.err = IF rows = {} \/ cols = {} THEN "ValueError"
                              ELSE "none",
                      !.profile =
                          IF rows = {} \/ cols = {} THEN << >>
                          ELSE [r \in 1..Cardinality(rows) |->
                                   FrameGray(first + r - 1,
                                             FrameShape[1] - 1 - x)]]
    /\ UNCHANGED <<recorder, frame_count, last, hist, gui, timing, detector,
                   mapper, osc, controller>>

NextScan ==
    \/ \E center_x \in CenterXs, center_y \in CenterYs, angle \in ScanAngles,
          radius \in ScanRadii, given \in BOOLEAN :
            ExtractRadialScanline(center_x, center_y, angle, radius, given)
    \/ \E center_x \in CenterXs, center_y \in CenterYs, angle \in ScanAngles,
          radius \in ScanRadii :
            ExtractRoiPixelsCircular(center_x, center_y, angle, radius)
    \/ \E x \in {0, 1, 2}, y \in {0, 1, 3}, h \in {0, 2},
          zodiac_mode \in BOOLEAN, section \in {0, 1} :
            ExtractRoiPixelsRectangular(x, y, h, zodiac_mode, section)

SpecScan == Init /\ [][NextScan]_vars

(* ----------------------------- OSC transport --------------------------- *)
\* the non-empty chords the pipeline hands to send_midi
OscChords == {ChordA, ChordB, ChordC}

\* the lists random.sample(data, n) can return: n elements of data at
\* distinct positions, in any order
Samples(data, n) ==
    {[i \in 1..n |-> data[p[i]]] :
        p \in {q \in [1..n -> 1..Len(data)] :
                 \A a, b \in 1..n : a # b => q[a] # q[b]}}

\* the parallel list of the field-th components of a chord
Column(chord, field) == [i \in 1..Len(chord) |-> chord[i][field]]

\* send_midi(client, len(midi_notes), midi_notes, velocities, durations)
SendMidi(chord) ==
    /\ \E n \in 1..Len(chord) :
         \E notes \in Samples(Column(chord, 1), n),
            velocities \in Samples(Column(chord, 2), n),
            durations \in Samples(Column(chord, 3), n) :
            osc' = [op |-> "send_midi", chord |-> chord, note |-> notes,
                    velocity |-> velocities, duration |-> durations]
    /\ UNCHANGED <<recorder, frame_count, last, hist, gui, timing, detector,
                   mapper, scan, controller>>

NextOsc == \E chord \in OscChords : SendMidi(chord)

SpecOsc == Init /\ [][NextOsc]_vars

--------------------------------------------------------------------------
\* TurntableController (turntable_controller.py)

\* children launched in one run of the controller
MaxChildren == 3

\* countdown threads counting at the same time
MaxCountdowns == 3

\* self.process and self.process.poll() is None
ProcessAlive(c) == c.process # 0 /\ c.process \in c.alive

\* self.countdown_thread = CountdownThread(3) ... start().  The thread the
\* attribute held before loses its only reference from the controller: when
\* it is still counting, either its run() frame keeps it alive and it
\* counts on, or Qt destroys a running QThread and aborts the application.
StartCountdown(c, slot) ==
    {[c EXCEPT !.countdowns =
          Append(@, [finished |-> slot, alive |-> ProcessAlive(c)])]}
    \cup (IF c.countdowns = << >> THEN {} ELSE {[c EXCEPT !.aborted = TRUE]})

\* start_process, the slot of the START button's clicked signal
StartProcess ==
    /\ ~controller.aborted
    /\ controller.start_button
    /\ Len(controller.countdowns) < MaxCountdowns
    /\ IF ProcessAlive(controller)
       THEN controller' = [controller EXCEPT !.op = "start_process_return"]
       ELSE controller' \in
                StartCountdown([controller EXCEPT !.op = "start_process",
                                                  !.start_button = FALSE],
                               "execute_start")
    /\ UNCHANGED <<recorder, frame_count, last, hist, gui, timing, detector,
                   mapper, scan, osc>>

\* stop_process, the slot of the STOP button's clicked signal
StopProcess ==
    /\ ~controller.aborted
    /\ controller.stop_button
    /\ Len(controller.countdowns) < MaxCountdowns
    /\ IF ~ProcessAlive(controller)
       THEN controller' = [controller EXCEPT !.op = "stop_process_return"]
       ELSE controller' \in
                StartCountdown([controller EXCEPT !.op = "stop_process",
                                                  !.stop_button = FALSE],
                               "execute_stop")
    /\ UNCHANGED <<recorder, frame_count, last, hist, gui, timing, detector,
                   mapper, scan, osc>>

\* what happens to the command of execute_start: the script is missing, the
\* child is gone after the half second, or it runs
LaunchOutcomes == {"missing", "exited", "running"}

\* execute_start, the slot of countdown_finished after a START
ExecuteStart(c, outcome) ==
    IF outcome = "missing"
    THEN [c EXCEPT !.op = "execute_start", !.start_button = TRUE]
    ELSE IF outcome = "exited"
    THEN [c EXCEPT !.op = "execute_start", !.launched = @ + 1,
                   !.process = c.launched + 1, !.start_button = TRUE]
    ELSE [c EXCEPT !.op = "execute_start", !.launched = @ + 1,
                   !.process = c.launched + 1,
                   !.alive = @ \cup {c.launched + 1},
                   !.stop_button = TRUE, !.monitor_timer = TRUE]

\* execute_stop, the slot of countdown_finished after a STOP
ExecuteStop(c) ==
    [c EXCEPT !.op = "execute_stop",
              !.alive = IF ProcessAlive(c) THEN @ \ {c.process} ELSE @,
              !.start_button = TRUE, !.stop_button = FALSE,
              !.process = 0, !.monitor_timer = FALSE]

\* CountdownThread.run reaches countdown_finished.emit(): the threads count
\* the same three seconds, so the oldest one finishes first
CountdownFinished ==
    /\ ~controller.aborted
    /\ controller.countdowns # << >>
    /\ LET slot == Head(controller.countdowns).finished
           c == [controller EXCEPT !.countdowns = Tail(@)]
       IN  IF slot = "execute_start"
           THEN /\ controller.launched < MaxChildren
                /\ \E outcome \in LaunchOutcomes :
                       controller' = ExecuteStart(c, outcome)
           ELSE controller' = ExecuteStop(c)
    /\ UNCHANGED <<recorder, frame_count, last, hist, gui, timing, detector,
                   mapper, scan, osc>>

\* check_process_status, the slot of the monitor timer's timeout
CheckProcessStatus ==
    /\ ~controller.aborted
    /\ controller.monitor_timer
    /\ controller' =
           IF controller.process # 0 /\ ~ProcessAlive(controller)
           THEN [controller EXCEPT !.op = "check_process_status",
                                   !.start_button = TRUE,
                                   !.stop_button = FALSE,
                                   !.process = 0, !.monitor_timer = FALSE]
           ELSE [controller EXCEPT !.op = "check_process_status"]
    /\ UNCHANGED <<recorder, frame_count, last, hist, gui, timing, detector,
                   mapper, scan, osc>>

\* a running child ends on its own
ChildExit ==
    /\ \E child \in controller.alive :
           controller' = [controller EXCEPT !.op = "child_exit",
                                            !.alive = @ \ {child}]
    /\ UNCHANGED <<recorder, frame_count, last, hist, gui, timing, detector,
                   mapper, scan, osc>>

NextController ==
    \/ StartProcess
    \/ StopProcess
    \/ CountdownFinished
    \/ CheckProcessStatus
    \/ ChildExit

SpecController == Init /\ [][NextController]_vars

TypeOK ==
    /\ rpm \in Int /\ fps \in Nat /\ frames_per_rotation \in Nat
    /\ is_recording \in BOOLEAN /\ is_loaded \in BOOLEAN
    /\ session_path \in BOOLEAN
    /\ recorded_rotations \in 0..1
    /\ frame_count \in Nat

(* ============================ properties =============================== *)

(* C1: for one recording begun by start_recording, over check_rotation_     *)
(* complete calls with non-decreasing frame counts, the call returns True   *)
(* exactly once, on the first call whose frame_count - frame_start >=       *)
(* frames_per_rotation: at every moment the number of True returns is 1 if  *)
(* such a call has been made and 0 otherwise, and a call that returned True *)
(* left the recorder not recording.                                         *)
C1_TrueExactlyOnce ==
    hist.active =>
        /\ hist.trues = (IF hist.reached THEN 1 ELSE 0)
        /\ (last.op = "check_rotation_complete" /\ last.ok) => ~is_recording
        /\ hist.reached => ~is_recording

\* a check_rotation_complete call made after the rotation completed returned False
C1_Witness ==
    /\ hist.active /\ hist.reached /\ hist.trues = 1
    /\ last.op = "check_rotation_complete" /\ ~last.ok
    /\ frame_count - hist.start > frames_per_rotation

(* C3: add_notes called while the recorder is not recording raises nothing  *)
(* and leaves current_rotation, score_data, recorded_rotations and          *)
(* is_recording unchanged.                                                  *)
C3_AddWhileIdleIsNoOp ==
    [][(~is_recording /\ last'.op = "add_notes")
         => /\ UNCHANGED <<current_rotation, score_data, recorded_rotations,
                           is_recording>>
            /\ last'.err = "none"]_vars

\* add_notes was called on a recorder that had finalized a recording
C3_Witness ==
    /\ last.op = "add_notes" /\ ~is_recording
    /\ score_data.rotations # << >>
    /\ current_rotation.notes = << >>

(* C4 (as stated): for a recording finalized in this recorder and every     *)
(* frame index k, get_playback_notes returns the chord added at relative    *)
(* frame k mod L, or the empty chord, L being frames_per_rotation at the    *)
(* moment of finalization, also after later RPM updates.                    *)
C4_PlaybackModuloRecordedLength ==
    (last.op = "get_playback_notes" /\ hist.first_len > 0
       /\ score_data.rotations # << >>)
      => /\ last.err = "none"
         /\ last.chord = FindNotes(score_data.rotations[1].notes,
                                   last.frame % hist.first_len)

C10_StartOpensFreshRecording ==
    /\ last.op = "start_recording" => current_rotation = NewRotation(frame_count)
    /\ (last.op = "get_playback_notes" /\ hist.active /\ hist.trues = 1)
         => last.chord =
               FindNotes(score_data.rotations[Len(score_data.rotations)].notes,
                         last.frame % frames_per_rotation)

(* C6 (as stated): playback of a recording that holds raw profiles but no   *)
(* per-frame chords completes without an error (and returns the chord the   *)
(* mapper computes from the stored profile).                                *)
C6_ProfilesOnlyPlaybackSucceeds ==
    (last.op \in {"get_playback_notes", "get_playback_notes_from_npy"}
       /\ score_data.rotations # << >>
       /\ ~score_data.rotations[1].has_notes)
      => last.err = "none"

(* C8 (as stated): a load_score_from_session that fails leaves score_data,  *)
(* rpm, fps, frames_per_rotation and is_loaded as they were.                *)
C8_FailedLoadChangesNothing ==
    [][(last'.op = "load_score_from_session" /\ ~last'.ok)
         => UNCHANGED <<score_data, rpm, fps, frames_per_rotation,
                        is_loaded>>]_vars

(* C2 (as stated): when process_logic calls add_notes then                  *)
(* check_rotation_complete once per frame from the start frame, with a      *)
(* constant N = frames_per_rotation, the recorder leaves Recording on the   *)
(* N-th check call and on no earlier one: a recorder started by the GUI is  *)
(* recording exactly while fewer than N checks have been made.              *)
C2_LeavesRecordingOnNthCheck ==
    (gui.has_recorder /\ session_path)
      => (is_recording <=> hist.checks < frames_per_rotation)

(* C5 (as stated): in the GUI, with playback mode on and a finalized        *)
(* recording (loaded, or completed by recording), each process_logic tick   *)
(* emits the chord stored for frame_count mod frames_per_rotation of that   *)
(* recording.                                                               *)
C5_GuiPlaybackEmitsStoredChord ==
    (last.op = "process_logic" /\ gui.is_playback_mode
       /\ hist.finalized.exists /\ hist.finalized.has_notes)
      => /\ last.ok
         /\ last.chord = FindNotes(hist.finalized.notes,
                                   last.frame % hist.finalized.fpr)

(* C9 (as stated): while the recorder is recording, every processed frame   *)
(* appends exactly one entry, empty chords included: after k processed      *)
(* frames the recording holds k entries (and k raw profiles).               *)
C9_OneEntryPerProcessedFrame ==
    (gui.has_recorder /\ is_recording)
      => /\ Len(current_rotation.notes) = frame_count - current_rotation.frame_start
         /\ Len(current_rotation.raw_rois) = Len(current_rotation.notes)

(* C11 (as stated): each time process_logic accepts an RPM estimate          *)
(* (> 0.5), the timing parameters and the recorder's frames_per_rotation     *)
(* are both recomputed from it and the tick runs to its end, incrementing    *)
(* the frame counter.                                                        *)
C11_AcceptedRpmUpdatesAll ==
    (last.op = "process_logic" /\ gui.has_detector
       /\ gui.detected_rpm_value > RpmFloor)
      => /\ gui.timing_fpr =
               FramesPerRotation(gui.detected_rpm_value, gui.camera_fps)
         /\ frames_per_rotation =
               FramesPerRotation(gui.detected_rpm_value, gui.camera_fps)
         /\ last.ok /\ frame_count = last.frame + 1

(* C12 (as stated): a processing step taken when the frame source has        *)
(* delivered no new frame since the previous step does not increase          *)
(* frame_count, adds no recording entry and does not complete the rotation.  *)
C12_NoAdvanceWithoutNewFrame ==
    [][(last'.op = "process_logic" /\ ~hist.new_frame)
         => /\ frame_count' = frame_count
            /\ current_rotation' = current_rotation
            /\ score_data' = score_data
            /\ is_recording' = is_recording]_vars

(* C13 (as stated): for every rpm > 0 and fps > 0 the frames_per_rotation    *)
(* computed by calculate_timing_parameters, by the recorder's constructor    *)
(* and by the processor is at least 1 (and the computation raises nothing).  *)
C13_FramesPerRotationAtLeastOne ==
    /\ (timing.op # "none" /\ timing.rpm > 0 /\ timing.fps > 0)
         => /\ timing.err = "none"
            /\ timing.frames_per_rotation >= 1
            /\ timing.cap_frames_per_rotation >= 1
    /\ (last.op = "__init__" /\ last.ok /\ rpm > 0 /\ fps > 0)
         => frames_per_rotation >= 1

(* C14 (as stated): an rpm <= 0 is rejected with an error when the timing    *)
(* model or the recorder is set up: no timing dictionary is returned for it  *)
(* and no recorder is constructed with it.                                   *)
C14_NonPositiveRpmRejected ==
    /\ (timing.op # "none" /\ timing.rpm <= 0) => timing.err # "none"
    /\ (last.op = "__init__" /\ last.ok) => rpm > 0

(* C15 (as stated): for every frame index within a rotation the sector       *)
(* reported equals floor(angle / 30) mod 12, also when frames_per_rotation   *)
(* is not a multiple of 12.                                                  *)
C15_SectorFollowsAngle ==
    (timing.op = "position" /\ timing.cap.err = "none"
       /\ timing.frame < timing.cap_frames_per_rotation)
      => timing.cap.sector =
            SectorOfAngle(timing.cap.angle, timing.cap_frames_per_rotation)

(* C16: with rpm = 2.5 and fps = 30, frames_per_rotation is 720 and          *)
(* frames_per_sector is 60, and within the rotation the sector of frame i is *)
(* 0 exactly for i in [0, 60) and 11 exactly for i in [660, 720).            *)
C16_Scenario720 ==
    (timing.op # "none" /\ timing.rpm = 25 /\ timing.fps = 30)
      => /\ timing.err = "none" /\ timing.cap_err = "none"
         /\ timing.frames_per_rotation = 720
         /\ timing.frames_per_zodiac_section = 60
         /\ timing.cap_frames_per_rotation = 720
         /\ timing.cap_frames_per_zodiac_section = 60
         /\ (timing.op = "position" /\ timing.frame < 720)
              => /\ timing.cap.err = "none"
                 /\ timing.cap.sector = 0 <=> timing.frame < 60
                 /\ timing.cap.sector = 11 <=> timing.frame >= 660

\* frame 660 of the 2.5 rpm / 30 fps rotation was placed in sector 11
C16_Witness ==
    /\ timing.op = "position" /\ timing.rpm = 25 /\ timing.fps = 30
    /\ timing.frame = 660 /\ timing.cap.sector = 11

(* C17 (as stated): the angle is periodic in the frame index with period     *)
(* frames_per_rotation, and the angle at frame frames_per_rotation is the    *)
(* angle at frame 0, which is 0; for the processor's angle and for the       *)
(* pipelines' (frame_count * degrees_per_frame) % 360 alike.                 *)
C17_AnglePeriodic ==
    (timing.op = "position" /\ timing.cap.err = "none")
      => /\ CurrentPosition(timing.frame + timing.cap_frames_per_rotation,
                            timing.cap_frames_per_rotation,
                            timing.cap_frames_per_zodiac_section).angle
              = timing.cap.angle
         /\ timing.frame = timing.cap_frames_per_rotation
              => timing.cap.angle = 0
         /\ (timing.pipe.known /\ timing.frame = timing.frames_per_rotation)
              => timing.pipe.ulps = 0

(* C18 (as stated): when calculate_rpm is given a frame from which it        *)
(* cannot estimate (fewer than 10 descriptors, fewer than 10 matches, or no  *)
(* transform fitted), it raises nothing, returns the RPM stored before the   *)
(* call and leaves rpm, the sample buffer and last_angle unchanged.          *)
C18_NoEstimateReturnsStoredRpm ==
    [][(detector'.call.op = "calculate_rpm" /\ detector'.call.descriptors >= 0
          /\ ~detector'.call.estimated)
         => /\ detector'.call.err = "none"
            /\ detector'.call.returned = detector.rpm
            /\ detector'.rpm = detector.rpm
            /\ detector'.rpm_buffer = detector.rpm_buffer
            /\ detector'.last_angle = detector.last_angle]_vars

(* C19 (as stated): for a previous and a new angle both in (-180, 180], the  *)
(* angle delta used for the instantaneous RPM lies in (-180, 180].           *)
C19_DeltaInHalfOpenInterval ==
    (detector.call.op = "calculate_rpm" /\ detector.call.estimated)
      => /\ detector.call.angle_diff > -180
         /\ detector.call.angle_diff <= 180

(* C20 (as stated): set_reference_frame on a frame with fewer than 10        *)
(* detected features fails with NoFeaturesFound and does not install the     *)
(* frame's features as the reference.                                        *)
C20_FewFeaturesRejected ==
    (detector.call.op = "set_reference_frame"
       /\ detector.call.descriptors >= 0
       /\ detector.call.descriptors < MinDescriptors)
      => /\ detector.call.err = "NoFeaturesFound"
         /\ ~(detector.has_reference
                /\ detector.reference_count = detector.call.descriptors)

(* C21 (as stated): with RPM detection enabled, after every processed frame  *)
(* whose estimate is at or below the 0.5 floor the timing parameters in use  *)
(* are those of the configured nominal RPM, also when an earlier estimate    *)
(* above the floor had been accepted.                                        *)
C21_LowEstimateUsesNominalTiming ==
    (last.op = "process_logic" /\ gui.has_detector
       /\ gui.detected_rpm_value <= RpmFloor)
      => gui.timing_fpr = FramesPerRotation(gui.nominal_rpm, gui.camera_fps)

(* C22 (as stated): for every profile and configuration, generate_midi_from_ *)
(* roi returns at most note_count_max notes, every returned note is in the   *)
(* active scale's pitch set and in the piano lattice 21..108, and the three  *)
(* returned lists have equal length.                                         *)
C22_BoundedInScaleChord ==
    mapper.op = "generate_midi_from_roi"
      => /\ Len(mapper.notes) <= mapper.config.note_count_max
         /\ \A a \in 1..Len(mapper.notes) :
               mapper.notes[a] \in ScaleNotes(mapper.config) \cap (21..108)
         /\ Len(mapper.velocities) = Len(mapper.notes)
         /\ Len(mapper.durations) = Len(mapper.notes)

(* C23: with velocity_range [32, 127] a profile of all-zero intensities      *)
(* yields a chord whose velocities are all 127, and a profile of all-255     *)
(* intensities yields an empty chord whenever 32, the velocity it maps to,   *)
(* is below velocity_threshold.                                              *)
C23_ExtremeProfiles ==
    (mapper.op = "generate_midi_from_roi"
       /\ mapper.config.velocity_range = <<32, 127>>)
      => /\ mapper.roi \in {"black", "short"}
              => \A a \in 1..Len(mapper.velocities) : mapper.velocities[a] = 127
         /\ (mapper.roi = "white" /\ 32 < mapper.config.velocity_threshold)
              => /\ mapper.notes = << >>
                 /\ mapper.velocities = << >>
                 /\ mapper.durations = << >>

(* C23 witness: under one configuration with threshold 40 an all-zero        *)
(* profile gave a non-empty chord of velocities 127 and the all-255 profile  *)
(* that followed gave the empty chord.                                       *)
C23_Witness ==
    /\ mapper.op = "generate_midi_from_roi"
    /\ mapper.config.velocity_range = <<32, 127>>
    /\ mapper.config.velocity_threshold = 40
    /\ mapper.previous.roi = "black"
    /\ mapper.previous.velocities = <<127, 127>>
    /\ mapper.roi = "white"
    /\ mapper.notes = << >>

(* C24 (as stated): a configured scale with no pitch in the lattice 21..108  *)
(* is a configuration error reported at setup, so the per-frame mapper is    *)
(* never run with such a scale and never returns an empty chord because of   *)
(* it.                                                                       *)
C24_MapperNeverRunsOnEmptyScale ==
    mapper.op = "generate_midi_from_roi" => mapper.available > 0

(* C25 (as stated): a scanline extractor given a zero-area or zero-length    *)
(* region (an empty rectangle slice, a radial scan of max_radius 0 or with   *)
(* every sample outside the frame) reports an error; it never returns a     *)
(* successful empty profile.                                                 *)
C25_EmptyRegionRejected ==
    LET radial == scan.op \in {"extract_radial_scanline",
                               "extract_roi_pixels_circular"}
        outside == \A r \in 0..(scan.radius - 1) :
                      ~Sample(scan.center_x, scan.center_y, scan.angle, r).inside
    IN  /\ (scan.op # "none" /\ scan.err = "none") => scan.profile # << >>
        /\ (radial /\ outside) => scan.err # "none"

(* C26 (as stated): for max_radius >= 1 the radial scanline has exactly      *)
(* max_radius samples, the sample of radius r at position r, and the sample  *)
(* of every radius whose pixel lies outside the frame is 0.                  *)
C26_ProfileLengthIsMaxRadius ==
    (scan.op \in {"extract_radial_scanline", "extract_roi_pixels_circular"}
       /\ scan.radius >= 1)
      => scan.profile = ZeroFilledScanline(scan.center_x, scan.center_y,
                                           scan.angle, scan.radius)

(* C27 (as stated): every entry of a rotation finalized by the pipeline has  *)
(* a relative frame index in [0, frames_per_rotation), the indices strictly  *)
(* increase in storage order, and so every entry is the one playback returns *)
(* for some frame index.                                                     *)
C27_FinalizedEntriesPlayable ==
    (gui.is_running /\ ~is_loaded /\ recorded_rotations >= 1)
      => \A n \in 1..Len(score_data.rotations) :
            LET notes == score_data.rotations[n].notes
            IN  \A a \in 1..Len(notes) :
                   /\ notes[a].frame >= 0
                   /\ notes[a].frame < frames_per_rotation
                   /\ a > 1 => notes[a - 1].frame < notes[a].frame
                   /\ n = 1 =>
                        \E k \in 0..MaxTicks :
                           PlaybackNotes(score_data, frames_per_rotation, k).chord
                             = notes[a].chord

(* C28 (as stated): across two consecutive processed frames the scan angle   *)
(* advances by exactly the current degrees_per_frame modulo 360, also when   *)
(* an accepted RPM estimate changed degrees_per_frame in between.            *)
C28_AngleAdvancesByDegreesPerFrame ==
    [][(last'.op = "process_logic" /\ last'.ok /\ frame_count > 0
          /\ frame_count' = frame_count + 1)
         => gui'.current_angle
              = (gui.current_angle + 360 \div gui'.timing_fpr) % 360]_vars

(* C29 (as stated): in every transmission by send_midi the /note, /velocity  *)
(* and /duration lists have the same length, and the i-th velocity and       *)
(* duration sent are those of the chord entry whose note is the i-th note    *)
(* sent.                                                                     *)
C29_SentTriplesStayPaired ==
    osc.op = "send_midi"
      => /\ Len(osc.velocity) = Len(osc.note)
         /\ Len(osc.duration) = Len(osc.note)
         /\ \A i \in 1..Len(osc.note) :
               \E e \in 1..Len(osc.chord) :
                  osc.chord[e] = <<osc.note[i], osc.velocity[i], osc.duration[i]>>

\* C30: at most one turntable child process is alive at any time, and no
\* countdown leading to a launch was requested while the child was alive.
C30_SingleChild ==
    /\ Cardinality(controller.alive) <= 1
    /\ \A i \in 1..Len(controller.countdowns) :
           controller.countdowns[i].finished = "execute_start"
               => ~controller.countdowns[i].alive

==========================================================================
